---------------------------- MODULE Spec2Model ----------------------------
(***************************************************************************)
(* Model of config.h: the HardwareOptions bit flags, the Config record,   *)
(* the statically initialised global CONFIG, and the firmware modules     *)
(* that read it (sensor-driver initialisation, networking, telemetry).    *)
(*                                                                         *)
(* An Arduino String is modelled as the sequence of its characters, each  *)
(* character a one-character string.                                       *)
(***************************************************************************)
EXTENDS Naturals, Sequences, FiniteSets

(* Number of concurrently running tasks of each firmware module. *)
NumTasks == 2

(* ---------------------------------------------------------------------- *)
(* enum HardwareOptions                                                    *)
(* ---------------------------------------------------------------------- *)

hoCO2 == 1

hoPM_overlap == 1 + 2

hoPM == 2

hoSHT_wide == 16 * 16

hoSHT == 4

HardwareOptions == {hoCO2, hoPM, hoSHT}

(* Width of unsigned char, the type of Config.hardwareOptions. *)
UCharBits == 8

RECURSIVE Pow2(_)
Pow2(n) == IF n = 0 THEN 1 ELSE 2 * Pow2(n - 1)

(* Conversion of an int to unsigned char: reduction modulo 2^8. *)
ToUnsignedChar(v) == v % Pow2(UCharBits)

(* The built-in operator | on non-negative ints. *)
RECURSIVE BitOr(_, _)
BitOr(a, b) ==
    IF a = 0 THEN b
    ELSE IF b = 0 THEN a
    ELSE (IF a % 2 = 1 \/ b % 2 = 1 THEN 1 ELSE 0) + 2 * BitOr(a \div 2, b \div 2)

(* The built-in operator & on non-negative ints. *)
RECURSIVE BitAnd(_, _)
BitAnd(a, b) ==
    IF a = 0 \/ b = 0 THEN 0
    ELSE (IF a % 2 = 1 /\ b % 2 = 1 THEN 1 ELSE 0) + 2 * BitAnd(a \div 2, b \div 2)

(* flags | ... | flags, the OR of a set of enumerators; the empty OR is 0. *)
RECURSIVE OrAll(_)
OrAll(S) ==
    IF S = {} THEN 0
    ELSE LET f == CHOOSE x \in S : TRUE IN BitOr(f, OrAll(S \ {f}))

(* ---------------------------------------------------------------------- *)
(* struct Config                                                           *)
(* ---------------------------------------------------------------------- *)

ConfigFields_Swapped ==
    << [name |-> "hardwareOptions", type |-> "unsigned char"],
       [name |-> "useFarenheit",    type |-> "bool"],
       [name |-> "connectWifi",     type |-> "bool"],
       [name |-> "wifiPassword",    type |-> "String"],
       [name |-> "wifiSSID",        type |-> "String"],
       [name |-> "apiEndpoint",     type |-> "String"],
       [name |-> "location",        type |-> "String"] >>

ConfigFields_Extra ==
    << [name |-> "hardwareOptions", type |-> "unsigned char"],
       [name |-> "useFarenheit",    type |-> "bool"],
       [name |-> "connectWifi",     type |-> "bool"],
       [name |-> "wifiSSID",        type |-> "String"],
       [name |-> "wifiPassword",    type |-> "String"],
       [name |-> "apiEndpoint",     type |-> "String"],
       [name |-> "location",        type |-> "String"],
       [name |-> "wifiChannel",     type |-> "unsigned char"] >>

(* The members of Config, in declaration order. *)
ConfigFields ==
    << [name |-> "hardwareOptions", type |-> "unsigned char"],
       [name |-> "useFarenheit",    type |-> "bool"],
       [name |-> "connectWifi",     type |-> "bool"],
       [name |-> "wifiSSID",        type |-> "String"],
       [name |-> "wifiPassword",    type |-> "String"],
       [name |-> "apiEndpoint",     type |-> "String"],
       [name |-> "location",        type |-> "String"] >>

FieldNames(fields) == {fields[i].name : i \in 1..Len(fields)}

FieldIndex(fields, n) == CHOOSE i \in 1..Len(fields) : fields[i].name = n

(* Value-initialisation of a member with no initializer. *)
DefaultValue(type) ==
    CASE type = "unsigned char" -> 0
      [] type = "bool"          -> FALSE
      [] type = "String"        -> << >>

(* Implicit conversion of an initializer to its member's type. *)
Convert(type, v) ==
    IF type = "unsigned char" THEN ToUnsignedChar(v) ELSE v

(* Aggregate initialisation: the i-th initializer goes to the i-th member *)
(* in declaration order; members past the end are value-initialised.      *)
AggregateInit(fields, init) ==
    [n \in FieldNames(fields) |->
        LET i == FieldIndex(fields, n) IN
        IF i <= Len(init) THEN Convert(fields[i].type, init[i])
        ELSE DefaultValue(fields[i].type)]

(* ---------------------------------------------------------------------- *)
(* struct Config CONFIG = { ... }                                          *)
(* ---------------------------------------------------------------------- *)

CONFIG_HardwareFlags_NoSHT == {hoCO2, hoPM}

(* The enumerators ORed together in the first initializer. *)
CONFIG_HardwareFlags == {hoCO2, hoPM, hoSHT}

CONFIG_Initializer_BoolsSwapped(flags) ==
    << OrAll(flags),
       TRUE,
       FALSE,
       <<"w", "i", "f", "i", "-", "n", "a", "m", "e">>,
       <<"w", "i", "f", "i", "-", "p", "a", "s", "s", "w", "o", "r", "d">>,
       <<"h", "t", "t", "p", ":", "/", "/", "1", "2", "7", ".", "0", ".", "0",
         ".", "1", ":", "9", "0", "0", "0", "/", "a", "i", "r", "q", "u", "a",
         "l", "i", "t", "y">>,
       <<"o", "f", "f", "i", "c", "e">> >>

CONFIG_Initializer_Short(flags) ==
    << OrAll(flags),
       FALSE,
       TRUE,
       <<"w", "i", "f", "i", "-", "n", "a", "m", "e">>,
       <<"h", "t", "t", "p", ":", "/", "/", "1", "2", "7", ".", "0", ".", "0",
         ".", "1", ":", "9", "0", "0", "0", "/", "a", "i", "r", "q", "u", "a",
         "l", "i", "t", "y">>,
       <<"o", "f", "f", "i", "c", "e">> >>

CONFIG_Initializer_NoScheme(flags) ==
    << OrAll(flags),
       FALSE,
       TRUE,
       <<"w", "i", "f", "i", "-", "n", "a", "m", "e">>,
       <<"w", "i", "f", "i", "-", "p", "a", "s", "s", "w", "o", "r", "d">>,
       <<"1", "2", "7", ".", "0", ".", "0", ".", "1", ":", "9", "0", "0", "0",
         "/", "a", "i", "r", "q", "u", "a", "l", "i", "t", "y">>,
       <<"o", "f", "f", "i", "c", "e">> >>

(* The positional initializer list of CONFIG, its first entry the OR of   *)
(* the given enumerators.                                                  *)
CONFIG_Initializer(flags) ==
    << OrAll(flags),
       FALSE,
       TRUE,
       <<"w", "i", "f", "i", "-", "n", "a", "m", "e">>,
       <<"w", "i", "f", "i", "-", "p", "a", "s", "s", "w", "o", "r", "d">>,
       <<"h", "t", "t", "p", ":", "/", "/", "1", "2", "7", ".", "0", ".", "0",
         ".", "1", ":", "9", "0", "0", "0", "/", "a", "i", "r", "q", "u", "a",
         "l", "i", "t", "y">>,
       <<"o", "f", "f", "i", "c", "e">> >>

(* The object CONFIG as constructed before the firmware starts. *)
CONFIG(flags) == AggregateInit(ConfigFields, CONFIG_Initializer(flags))

(* ---------------------------------------------------------------------- *)
(* The firmware modules that consume CONFIG                                *)
(* ---------------------------------------------------------------------- *)

Modules == {"sensors", "network", "telemetry"}

Tasks == Modules \X (1..NumTasks)

VARIABLES
    selected,   \* the enumerators the build's initializer ORs together
    config,     \* the global object CONFIG
    obs,        \* obs[t]: the values task t has read, by field name
    drivers     \* drivers[t]: the sensor drivers task t has started

vars == <<selected, config, obs, drivers>>

(* Task t keeps the value it read from field n. *)
Observe(o, n, v) ==
    [m \in DOMAIN o \cup {n} |-> IF m = n THEN v ELSE o[m]]

NoObs == [m \in {} |-> 0]

InitFor(flags) ==
    /\ selected = flags
    /\ config = CONFIG(flags)
    /\ obs = [t \in Tasks |-> NoObs]
    /\ drivers = [t \in Tasks |-> {}]

(* The firmware image as shipped: the initializer ORs all three flags. *)
Init == InitFor(CONFIG_HardwareFlags)

(* Any build: the initializer ORs any combination of the three flags. *)
InitAnyMask == \E flags \in SUBSET HardwareOptions : InitFor(flags)

(* Sensor-driver initialisation reads hardwareOptions and starts the      *)
(* driver of every sensor whose bit is set.                                *)
SensorInit(t) ==
    /\ t[1] = "sensors"
    /\ obs' = [obs EXCEPT ![t] = Observe(@, "hardwareOptions", config.hardwareOptions)]
    /\ drivers' = [drivers EXCEPT
                     ![t] = {f \in HardwareOptions : BitAnd(config.hardwareOptions, f) # 0}]
    /\ UNCHANGED <<selected, config>>

NetworkJoin_Scrub(t) ==
    /\ t[1] = "network"
    /\ "connectWifi" \in DOMAIN obs[t]
    /\ obs[t]["connectWifi"]
    /\ obs' = [obs EXCEPT ![t] = Observe(Observe(@, "wifiSSID", config.wifiSSID),
                                         "wifiPassword", config.wifiPassword)]
    /\ config' = [config EXCEPT !.wifiPassword = << >>]
    /\ UNCHANGED <<selected, drivers>>

(* The networking module reads connectWifi to decide whether to join. *)
NetworkCheck(t) ==
    /\ t[1] = "network"
    /\ obs' = [obs EXCEPT ![t] = Observe(@, "connectWifi", config.connectWifi)]
    /\ UNCHANGED <<selected, config, drivers>>

(* When connectWifi was true, the networking module joins the network     *)
(* with the two credentials it reads.                                      *)
NetworkJoin(t) ==
    /\ t[1] = "network"
    /\ "connectWifi" \in DOMAIN obs[t]
    /\ obs[t]["connectWifi"]
    /\ obs' = [obs EXCEPT ![t] = Observe(Observe(@, "wifiSSID", config.wifiSSID),
                                         "wifiPassword", config.wifiPassword)]
    /\ UNCHANGED <<selected, config, drivers>>

(* The telemetry module reads useFarenheit to format a temperature. *)
TelemetryFormat(t) ==
    /\ t[1] = "telemetry"
    /\ obs' = [obs EXCEPT ![t] = Observe(@, "useFarenheit", config.useFarenheit)]
    /\ UNCHANGED <<selected, config, drivers>>

(* The telemetry module submits readings tagged with location to          *)
(* apiEndpoint.                                                            *)
TelemetrySend(t) ==
    /\ t[1] = "telemetry"
    /\ obs' = [obs EXCEPT ![t] = Observe(Observe(@, "apiEndpoint", config.apiEndpoint),
                                         "location", config.location)]
    /\ UNCHANGED <<selected, config, drivers>>

Next ==
    \E t \in Tasks :
        \/ SensorInit(t)
        \/ NetworkCheck(t)
        \/ NetworkJoin(t)
        \/ TelemetryFormat(t)
        \/ TelemetrySend(t)

Spec == Init /\ [][Next]_vars

SpecAnyMask == InitAnyMask /\ [][Next]_vars

(* ---------------------------------------------------------------------- *)
(* The configuration variant without network credentials                   *)
(* ---------------------------------------------------------------------- *)

(* The members of the first variant of Config, with the types the data    *)
(* model gives them.                                                       *)
ConfigV1Fields ==
    << [name |-> "hardwareOptions", type |-> "8-bit mask"],
       [name |-> "useFarenheit",    type |-> "boolean"],
       [name |-> "connectWifi",     type |-> "boolean"],
       [name |-> "apiEndpoint",     type |-> "text"],
       [name |-> "location",        type |-> "text"] >>

(* The data model's name for a member type of struct Config. *)
DataModelType(type) ==
    CASE type = "unsigned char" -> "8-bit mask"
      [] type = "bool"          -> "boolean"
      [] type = "String"        -> "text"

(* ---------------------------------------------------------------------- *)
(* Helpers of the properties                                               *)
(* ---------------------------------------------------------------------- *)

HasRead(t, n) == n \in DOMAIN obs[t]

SensorTasks == {t \in Tasks : t[1] = "sensors"}

NetworkTasks == {t \in Tasks : t[1] = "network"}

TelemetryTasks == {t \in Tasks : t[1] = "telemetry"}

SingleBits == {Pow2(k) : k \in 0..(UCharBits - 1)}

Alpha ==
    {"a", "b", "c", "d", "e", "f", "g", "h", "i", "j", "k", "l", "m",
     "n", "o", "p", "q", "r", "s", "t", "u", "v", "w", "x", "y", "z",
     "A", "B", "C", "D", "E", "F", "G", "H", "I", "J", "K", "L", "M",
     "N", "O", "P", "Q", "R", "S", "T", "U", "V", "W", "X", "Y", "Z"}

Digit == {"0", "1", "2", "3", "4", "5", "6", "7", "8", "9"}

Min(S) == CHOOSE x \in S : \A y \in S : x <= y

Max(S) == CHOOSE x \in S : \A y \in S : y <= x

AllIn(s, C) == \A i \in 1..Len(s) : s[i] \in C

(* host, or host ":" port with a non-empty decimal port *)
WellFormedAuthority(a) ==
    LET colons == {i \in 1..Len(a) : a[i] = ":"}
        host == IF colons = {} THEN a ELSE SubSeq(a, 1, Max(colons) - 1)
        port == IF colons = {} THEN << >> ELSE SubSeq(a, Max(colons) + 1, Len(a))
    IN /\ Len(host) > 0
       /\ AllIn(host, Alpha \cup Digit \cup {".", "-"})
       /\ colons # {} => Len(port) > 0 /\ AllIn(port, Digit)

(* scheme "://" host [":" port] "/" path *)
WellFormedURL(s) ==
    LET seps == {i \in 1..(Len(s) - 2) :
                    s[i] = ":" /\ s[i + 1] = "/" /\ s[i + 2] = "/"}
    IN /\ seps # {}
       /\ LET i == Min(seps)
              scheme == SubSeq(s, 1, i - 1)
              slashes == {j \in (i + 3)..Len(s) : s[j] = "/"}
          IN /\ Len(scheme) > 0
             /\ scheme[1] \in Alpha
             /\ AllIn(scheme, Alpha \cup Digit \cup {"+", "-", "."})
             /\ slashes # {}
             /\ WellFormedAuthority(SubSeq(s, i + 3, Min(slashes) - 1))
             /\ AllIn(SubSeq(s, Min(slashes), Len(s)), (Alpha \cup Digit
                        \cup {"/", "-", ".", "_", "~", "%", "?", "=", "&"}))

(* ---------------------------------------------------------------------- *)
(* Properties                                                              *)
(* ---------------------------------------------------------------------- *)

(* C1: CONFIG.hardwareOptions is hoCO2 | hoPM | hoSHT, that is 0x07: the  *)
(* bits set in it are exactly 0x01, 0x02 and 0x04 and no other, and       *)
(* sensor-driver initialisation reads that value.                          *)
C1_HardwareMaskIsAllThree ==
    /\ config.hardwareOptions = BitOr(BitOr(hoCO2, hoPM), hoSHT)
    /\ config.hardwareOptions = 7
    /\ {b \in SingleBits : BitAnd(config.hardwareOptions, b) # 0} = {1, 2, 4}
    /\ \A t \in SensorTasks :
          HasRead(t, "hardwareOptions") => obs[t].hardwareOptions = 7

C1_Witness ==
    \E t \in SensorTasks :
        /\ HasRead(t, "hardwareOptions")
        /\ obs[t].hardwareOptions = 7
        /\ drivers[t] = {hoCO2, hoPM, hoSHT}

(* C2: CONFIG is never mutated: in every reachable state every field of   *)
(* CONFIG holds the value it was initialised with, every value a task has *)
(* read is that initial value, and any two tasks that have read the same  *)
(* field hold the same value.                                              *)
C2_NeverMutated ==
    /\ config = CONFIG(selected)
    /\ \A t \in Tasks : \A n \in DOMAIN obs[t] : obs[t][n] = CONFIG(selected)[n]
    /\ \A t, u \in Tasks : \A n \in DOMAIN obs[t] \cap DOMAIN obs[u] :
          obs[t][n] = obs[u][n]

C2_Witness ==
    /\ \A t \in Tasks :
          \/ t[1] = "sensors" /\ HasRead(t, "hardwareOptions")
          \/ t[1] = "network" /\ HasRead(t, "wifiPassword")
          \/ t[1] = "telemetry" /\ HasRead(t, "location") /\ HasRead(t, "useFarenheit")
    /\ \E t, u \in NetworkTasks :
          t # u /\ obs[t].wifiPassword = obs[u].wifiPassword
    /\ config = CONFIG(selected)

(* C3: in CONFIG, useFarenheit is false and connectWifi is true, and      *)
(* these are the values the consumers read.                                *)
C3_BooleanFields ==
    /\ config.useFarenheit = FALSE
    /\ config.connectWifi = TRUE
    /\ \A t \in Tasks :
          /\ HasRead(t, "useFarenheit") => obs[t].useFarenheit = FALSE
          /\ HasRead(t, "connectWifi") => obs[t].connectWifi = TRUE

C3_Witness ==
    /\ \E t \in TelemetryTasks :
          HasRead(t, "useFarenheit") /\ obs[t].useFarenheit = FALSE
    /\ \E t \in NetworkTasks :
          HasRead(t, "connectWifi") /\ obs[t].connectWifi = TRUE

(* C4: in CONFIG, apiEndpoint and location are non-empty, connectWifi is  *)
(* true, and connectWifi implies wifiSSID and wifiPassword are non-empty. *)
C4_RequiredStringsNonEmpty ==
    /\ Len(config.apiEndpoint) > 0
    /\ Len(config.location) > 0
    /\ config.connectWifi
    /\ config.connectWifi =>
          Len(config.wifiSSID) > 0 /\ Len(config.wifiPassword) > 0

C4_Witness ==
    /\ \E t \in NetworkTasks :
          /\ HasRead(t, "connectWifi") /\ obs[t].connectWifi
          /\ HasRead(t, "wifiSSID") /\ Len(obs[t].wifiSSID) > 0
          /\ HasRead(t, "wifiPassword") /\ Len(obs[t].wifiPassword) > 0
    /\ \E t \in TelemetryTasks :
          /\ HasRead(t, "apiEndpoint") /\ Len(obs[t].apiEndpoint) > 0
          /\ HasRead(t, "location") /\ Len(obs[t].location) > 0

(* C5: for every combination of the three flags, the empty one included,  *)
(* the OR of the flags lies in 0..7 and hardwareOptions, an unsigned      *)
(* 8-bit field, holds exactly that value: nothing is truncated.            *)
C5_EveryCombinationFits ==
    /\ selected \in SUBSET HardwareOptions
    /\ OrAll(selected) \in 0..7
    /\ config.hardwareOptions = OrAll(selected)
    /\ config.hardwareOptions \in 0..(Pow2(UCharBits) - 1)
    /\ \A t \in SensorTasks :
          HasRead(t, "hardwareOptions") => obs[t].hardwareOptions = OrAll(selected)

C5_Witness ==
    /\ selected = {}
    /\ config.hardwareOptions = 0
    /\ \E t \in SensorTasks : HasRead(t, "hardwareOptions") /\ drivers[t] = {}

(* C8: the three flags are distinct single bits, pairwise disjoint, and   *)
(* the encoding round-trips: the mask of a subset S of the flags has      *)
(* (mask & f) != 0 exactly for the flags f of S, sensor-driver            *)
(* initialisation starts exactly the drivers of S, and no other subset    *)
(* has the same mask.                                                      *)
C8_MaskRoundTrips ==
    /\ Cardinality({hoCO2, hoPM, hoSHT}) = 3
    /\ \A f \in HardwareOptions : f \in SingleBits
    /\ \A f, g \in HardwareOptions : f # g => BitAnd(f, g) = 0
    /\ \A f \in HardwareOptions :
          (BitAnd(config.hardwareOptions, f) # 0) <=> (f \in selected)
    /\ \A T \in SUBSET HardwareOptions :
          OrAll(T) = config.hardwareOptions => T = selected
    /\ \A t \in SensorTasks :
          HasRead(t, "hardwareOptions") => drivers[t] = selected

C8_Witness ==
    /\ selected = {hoCO2, hoSHT}
    /\ config.hardwareOptions = 5
    /\ \E t \in SensorTasks :
          HasRead(t, "hardwareOptions") /\ drivers[t] = {hoCO2, hoSHT}

(* C6: whenever connectWifi is true apiEndpoint is a well-formed URL      *)
(* (scheme, "://", non-empty host, optional port, path), and connectWifi  *)
(* is true in CONFIG; the telemetry module reads that URL.                 *)
C6_EndpointWellFormed ==
    /\ config.connectWifi
    /\ config.connectWifi => WellFormedURL(config.apiEndpoint)
    /\ \A t \in TelemetryTasks :
          HasRead(t, "apiEndpoint") => WellFormedURL(obs[t].apiEndpoint)

C6_Witness ==
    /\ \E t \in NetworkTasks : HasRead(t, "connectWifi") /\ obs[t].connectWifi
    /\ \E t \in TelemetryTasks :
          HasRead(t, "apiEndpoint") /\ WellFormedURL(obs[t].apiEndpoint)

(* C7: Config has every field of the variant without credentials, with    *)
(* the same type and in the same relative order, and adds exactly the two *)
(* fields wifiSSID and wifiPassword; CONFIG has exactly those fields.      *)
C7_SupersetOfFirstVariant ==
    /\ \A i \in 1..Len(ConfigV1Fields) :
          \E j \in 1..Len(ConfigFields) :
              /\ ConfigFields[j].name = ConfigV1Fields[i].name
              /\ DataModelType(ConfigFields[j].type) = ConfigV1Fields[i].type
    /\ \A i, k \in 1..Len(ConfigV1Fields) :
          i < k => FieldIndex(ConfigFields, ConfigV1Fields[i].name)
                     < FieldIndex(ConfigFields, ConfigV1Fields[k].name)
    /\ FieldNames(ConfigFields) \ FieldNames(ConfigV1Fields)
          = {"wifiSSID", "wifiPassword"}
    /\ Len(ConfigFields) = Len(ConfigV1Fields) + 2
    /\ \A j \in 1..Len(ConfigFields) :
          ConfigFields[j].name \in {"wifiSSID", "wifiPassword"}
             => ConfigFields[j].type = "String"
    /\ DOMAIN config = FieldNames(ConfigV1Fields) \cup {"wifiSSID", "wifiPassword"}

C7_Witness ==
    /\ \A n \in FieldNames(ConfigV1Fields) : \E t \in Tasks : HasRead(t, n)
    /\ \E t \in NetworkTasks : HasRead(t, "wifiSSID") /\ HasRead(t, "wifiPassword")

(* C9: the initializer of CONFIG has one value per field of Config, in    *)
(* declaration order, and each value is in the field it is meant for: the *)
(* mask in hardwareOptions, false in useFarenheit, true in connectWifi,   *)
(* "wifi-name" in wifiSSID, "wifi-password" in wifiPassword, the URL in   *)
(* apiEndpoint and "office" in location.                                   *)
C9_InitializerIsPositional ==
    /\ Len(CONFIG_Initializer(selected)) = Len(ConfigFields)
    /\ \A i \in 1..Len(ConfigFields) :
          config[ConfigFields[i].name] = CONFIG_Initializer(selected)[i]
    /\ config.hardwareOptions = 7
    /\ config.useFarenheit = FALSE
    /\ config.connectWifi = TRUE
    /\ config.wifiSSID = <<"w", "i", "f", "i", "-", "n", "a", "m", "e">>
    /\ config.wifiPassword =
          <<"w", "i", "f", "i", "-", "p", "a", "s", "s", "w", "o", "r", "d">>
    /\ config.apiEndpoint =
          <<"h", "t", "t", "p", ":", "/", "/", "1", "2", "7", ".", "0", ".",
            "0", ".", "1", ":", "9", "0", "0", "0", "/", "a", "i", "r", "q",
            "u", "a", "l", "i", "t", "y">>
    /\ config.location = <<"o", "f", "f", "i", "c", "e">>

C9_Witness ==
    /\ \A n \in DOMAIN config : \E t \in Tasks : HasRead(t, n) /\ obs[t][n] = config[n]
    /\ \E t \in NetworkTasks :
          HasRead(t, "wifiSSID")
             /\ obs[t].wifiSSID = <<"w", "i", "f", "i", "-", "n", "a", "m", "e">>

=============================================================================
